---- MODULE Spec2Model ----
(***************************************************************************)
(* AOCC dashboard, src/aocc_dashboard.py.                                  *)
(*                                                                         *)
(* The database (tables flights, gates, alerts) is owned outside the       *)
(* script; the script reads it through six SELECT statements and writes it *)
(* through one INSERT.  Time is counted in whole hours.  A nullable SQL    *)
(* value is the empty tuple (NULL) or a one-element tuple <<v>>.           *)
(*                                                                         *)
(* Reading of the script: `def init` (line 24) is taken as the constructor *)
(* that `AOCCDashboard(conn)` (line 76) calls and `if name == "main"`      *)
(* (line 194) as the entry guard, so that main() runs from line 72 to line *)
(* 192 once per page execution.  Whether the database takes the INSERT of  *)
(* lines 176-179 is decided outside the script and is drawn both ways.     *)
(***************************************************************************)
EXTENDS Integers, Sequences, FiniteSets, TLC

VARIABLES
    now,          \* database clock NOW(), in hours
    flights,      \* table flights: sequence of rows in storage order
    gates,        \* table gates: gate_number (its key) -> status
    alerts,       \* table alerts: sequence of rows in storage order
    conn_cache,   \* st.cache_resource entry of init_connection: Null or <<handle>>
    opened,       \* number of connections st.connection has created
    query_cache,  \* st.cache_data entries of conn.query: query -> Null or <<result>>
    conn,         \* handle main() holds in the last run: Null or <<handle>>
    used_conns,   \* handles the statements of the last run were sent on
    kpis_df,      \* what each widget of the last run was drawn from:
    df,           \*   Null (not drawn) or <<query result>>
    alerts_df,
    gate_df,
    delays,
    status_df,
    alert_boxes,  \* st.error boxes of the alerts tab in the last run
    form,         \* values of the add-flight form widgets in the last run
    msgs,         \* message boxes and footer drawn in the last run
    step,         \* what triggered the last step
    rerun         \* a rerun requested by st.rerun() is pending

vars == <<now, flights, gates, alerts, conn_cache, opened, query_cache, conn,
          used_conns, kpis_df, df, alerts_df, gate_df, delays, status_df,
          alert_boxes, form, msgs, step, rerun>>

db == <<now, flights, gates, alerts>>
process == <<conn_cache, opened, query_cache>>
page == <<conn, used_conns, kpis_df, df, alerts_df, gate_df, delays, status_df,
          alert_boxes, form, msgs, step, rerun>>

----------------------------------------------------------------------------
(* Program constants *)

FeedWindow == 6
KpiWindow == 24
AlertLimit == 20

(* Bounds of the model *)

NowInit == 30
MaxFlights == 3
MaxGates == 10
MaxAlerts == 22
MaxPageFlights == 2
Horizon == NowInit + FeedWindow

----------------------------------------------------------------------------
(* SQL values *)

Null == <<>>
Some(v) == <<v>>

RECURSIVE SumSeq(_)
SumSeq(s) == IF s = <<>> THEN 0 ELSE Head(s) + SumSeq(Tail(s))

RECURSIVE SumCounts(_)
SumCounts(S) ==
    IF S = {} THEN 0
    ELSE LET r == CHOOSE x \in S : TRUE IN r.count + SumCounts(S \ {r})

SeqMap(Op(_), s) == [i \in 1..Len(s) |-> Op(s[i])]

Range(s) == {s[i] : i \in 1..Len(s)}

\* ORDER BY eta ASC: rows with equal eta keep their storage order
RECURSIVE OrderByEtaAsc(_)
OrderByEtaAsc(s) ==
    IF s = <<>> THEN <<>>
    ELSE LET r == s[Len(s)]
             sorted == OrderByEtaAsc(SubSeq(s, 1, Len(s) - 1))
         IN SelectSeq(sorted, LAMBDA x : x.eta <= r.eta) \o <<r>>
            \o SelectSeq(sorted, LAMBDA x : x.eta > r.eta)

\* ORDER BY created_at DESC: rows with equal created_at keep their storage order
RECURSIVE OrderByCreatedDesc(_)
OrderByCreatedDesc(s) ==
    IF s = <<>> THEN <<>>
    ELSE LET r == s[Len(s)]
             sorted == OrderByCreatedDesc(SubSeq(s, 1, Len(s) - 1))
         IN SelectSeq(sorted, LAMBDA x : x.created_at >= r.created_at) \o <<r>>
            \o SelectSeq(sorted, LAMBDA x : x.created_at < r.created_at)

Limit(s, n) == SubSeq(s, 1, IF Len(s) < n THEN Len(s) ELSE n)

----------------------------------------------------------------------------
(* The statements of the query layer, evaluated on a database state *)

\* LEFT JOIN gates g ON f.gate = g.gate_number, with the computed column
JoinGate(f, gt, t) ==
    LET hit == f.gate # Null /\ f.gate[1] \in DOMAIN gt
    IN [flight_id |-> f.flight_id, origin |-> f.origin, dest |-> f.dest,
        eta |-> f.eta, status |-> f.status, delay_min |-> f.delay_min,
        gate |-> f.gate, created_at |-> f.created_at,
        gate_number |-> IF hit THEN f.gate ELSE Null,
        gate_status |-> IF hit THEN Some(gt[f.gate[1]]) ELSE Null,
        minutes_since_eta |-> 60 * (t - f.eta)]

refresh_data_bad_window(fl, gt, t) ==
    OrderByEtaAsc(SeqMap(LAMBDA f : JoinGate(f, gt, t),
        SelectSeq(fl, LAMBDA f : f.created_at >= t - FeedWindow)))

refresh_data_sql(fl, gt, t) ==
    OrderByEtaAsc(SeqMap(LAMBDA f : JoinGate(f, gt, t),
        SelectSeq(fl, LAMBDA f : f.created_at > t - FeedWindow)))

get_gate_utilization_all_statuses(gt) ==
    {[status |-> s, count |-> Cardinality({g \in DOMAIN gt : gt[g] = s})] :
        s \in {"Occupied", "Available", "Maintenance"}}

get_gate_utilization_sql(gt) ==
    {[status |-> s, count |-> Cardinality({g \in DOMAIN gt : gt[g] = s})] :
        s \in {gt[g] : g \in DOMAIN gt}}

get_alerts_no_limit(al) ==
    OrderByCreatedDesc(SelectSeq(al, LAMBDA a : ~a.resolved))

get_alerts_sql(al) ==
    Limit(OrderByCreatedDesc(SelectSeq(al, LAMBDA a : ~a.resolved)), AlertLimit)

\* AVG(x): NULL rows are skipped; NULL when no row is left.  The value is
\* the exact fraction <<sum, count>>.
Avg(xs) ==
    LET vals == SelectSeq(xs, LAMBDA x : x # Null)
    IN IF vals = <<>> THEN Null
       ELSE Some(<<SumSeq(SeqMap(LAMBDA x : x[1], vals)), Len(vals)>>)

\* SUM(x) over int rows: NULL when there is no row
Sum(xs) == IF xs = <<>> THEN Null ELSE Some(SumSeq(xs))

IsDelayed(f) == f.delay_min # Null /\ f.delay_min[1] > 0

get_kpis_avg_delayed_only(fl, gt, t) ==
    LET w == SelectSeq(fl, LAMBDA f : f.created_at > t - KpiWindow)
    IN [total_flights |-> Len(w),
        delayed_flights |->
            Sum(SeqMap(LAMBDA f : IF IsDelayed(f) THEN 1 ELSE 0, w)),
        avg_delay |-> Avg(SeqMap(LAMBDA f : f.delay_min, SelectSeq(w, IsDelayed))),
        occupied_gates |-> Cardinality({g \in DOMAIN gt : gt[g] = "Occupied"})]

get_kpis_sql(fl, gt, t) ==
    LET w == SelectSeq(fl, LAMBDA f : f.created_at > t - KpiWindow)
    IN [total_flights |-> Len(w),
        delayed_flights |->
            Sum(SeqMap(LAMBDA f : IF IsDelayed(f) THEN 1 ELSE 0, w)),
        avg_delay |-> Avg(SeqMap(LAMBDA f : f.delay_min, w)),
        occupied_gates |-> Cardinality({g \in DOMAIN gt : gt[g] = "Occupied"})]

\* SELECT delay_min FROM flights WHERE delay_min > 0
delay_query(fl) == SeqMap(LAMBDA f : f.delay_min[1], SelectSeq(fl, IsDelayed))

\* SELECT status, COUNT(*) ... WHERE created_at > NOW() - 24h GROUP BY status
status_query(fl, t) ==
    LET w == SelectSeq(fl, LAMBDA f : f.created_at > t - KpiWindow)
    IN {[status |-> s,
         count |-> Len(SelectSeq(w, LAMBDA f : f.status = s))] :
            s \in {w[i].status : i \in 1..Len(w)}}

----------------------------------------------------------------------------
(* conn.query: the connection keeps every result under its statement       *)
(* (st.cache_data, no expiry) and answers a repeated statement from there  *)
(* until st.cache_data.clear() empties it.                                 *)

Queries == {"kpis", "feed", "alerts", "gates", "delays", "status"}

EmptyCache == [q \in Queries |-> Null]

conn_query(cache, q, fresh) == IF cache[q] # Null THEN cache[q][1] ELSE fresh

refresh_data(cache, fl, gt, t) ==
    conn_query(cache, "feed", refresh_data_sql(fl, gt, t))

get_gate_utilization(cache, gt) ==
    conn_query(cache, "gates", get_gate_utilization_sql(gt))

get_alerts(cache, al) == conn_query(cache, "alerts", get_alerts_sql(al))

get_kpis(cache, fl, gt, t) == conn_query(cache, "kpis", get_kpis_sql(fl, gt, t))

\* @st.cache_resource: the body runs on the first call of the process only
init_connection_uncached(cc, n) == [handle |-> n + 1, cache |-> Some(n + 1), opened |-> n + 1]

init_connection(cc, n) ==
    IF cc # Null THEN [handle |-> cc[1], cache |-> cc, opened |-> n]
    ELSE [handle |-> n + 1, cache |-> Some(n + 1), opened |-> n + 1]

----------------------------------------------------------------------------
(* The alerts tab, lines 118-128 *)

\* one st.error box per row of alerts_df
alert_rows(adf) == SeqMap(LAMBDA a : <<a.severity, a.message>>, adf)

alerts_banner(adf) == IF adf = <<>> THEN {"no_alerts"} ELSE {}

----------------------------------------------------------------------------
(* The add-flight form, lines 164-183 *)

Flight(id, origin, dest, eta, status, delay, gate, created) ==
    [flight_id |-> id, origin |-> origin, dest |-> dest, eta |-> eta,
     status |-> status, delay_min |-> delay, gate |-> gate,
     created_at |-> created]

\* INSERT INTO flights (flight_id, origin, dest, eta, status) VALUES
\* (%s, %s, 'Salem', %s, %s): the columns not named take the table's defaults
\* (no delay_min, no gate, created_at the time of the insert)
insert_row(f, t) ==
    Flight(f.flight_id, f.origin, "Salem", f.eta, f.status, Null, Null, t)

insert_unless_present(fl, f, t) ==
    IF \E i \in 1..Len(fl) : fl[i].flight_id = f.flight_id THEN fl
    ELSE Append(fl, insert_row(f, t))

insert_flight(fl, f, t) == Append(fl, insert_row(f, t))

except_value_error(exc) == exc = "ValueError"

\* line 182, `except:` with no class: every exception is caught, the
\* RerunException that st.rerun() raises to stop the script included
bare_except(exc) == TRUE

\* lines 175-183: what the try statement shows and what leaves it
add_flight_try(accepted) ==
    LET shown == IF accepted THEN {"success"} ELSE {}
        exc == IF accepted THEN "RerunException" ELSE "DatabaseError"
    IN IF bare_except(exc) THEN [msgs |-> shown \cup {"error"}, raised |-> Null]
       ELSE [msgs |-> shown, raised |-> Some(exc)]

auto_assign_occupies(gt) ==
    [g \in DOMAIN gt |-> IF gt[g] = "Available" THEN "Occupied" ELSE gt[g]]

\* lines 185-187: the button shows st.info and sends no statement
auto_assign_gates(gt) == gt

----------------------------------------------------------------------------
(* One execution of main(), lines 71-192 *)

NotDrawn ==
    /\ kpis_df' = Null /\ df' = Null /\ alerts_df' = Null /\ gate_df' = Null
    /\ delays' = Null /\ status_df' = Null /\ alert_boxes' = <<>>
    /\ used_conns' = {}

\* kind: the widget that triggered the run; f: the form's values;
\* accepted: whether the database takes the INSERT
Run(kind, f, accepted) ==
    LET ic == init_connection(conn_cache, opened)
    IN /\ conn_cache' = ic.cache
       /\ opened' = ic.opened
       /\ conn' = Some(ic.handle)
       /\ step' = kind
       /\ IF kind = "refresh"
          THEN \* lines 79-81: st.cache_data.clear(); st.rerun() ends the run
               /\ query_cache' = EmptyCache
               /\ rerun' = TRUE
               /\ msgs' = {}
               /\ NotDrawn
               /\ UNCHANGED <<db, form>>
          ELSE LET k == get_kpis(query_cache, flights, gates, now)
                   d == refresh_data(query_cache, flights, gates, now)
                   a == get_alerts(query_cache, alerts)
                   g == get_gate_utilization(query_cache, gates)
                   dl == conn_query(query_cache, "delays", delay_query(flights))
                   s == conn_query(query_cache, "status", status_query(flights, now))
                   submitted == kind = "submit"
                   try == add_flight_try(accepted)
                   escaped == submitted /\ try.raised # Null
               IN /\ kpis_df' = Some(k) /\ df' = Some(d) /\ alerts_df' = Some(a)
                  /\ gate_df' = Some(g) /\ delays' = Some(dl) /\ status_df' = Some(s)
                  /\ query_cache' =
                        [q \in Queries |->
                            CASE q = "kpis" -> Some(k) [] q = "feed" -> Some(d)
                              [] q = "alerts" -> Some(a) [] q = "gates" -> Some(g)
                              [] q = "delays" -> Some(dl) [] q = "status" -> Some(s)]
                  /\ used_conns' = {ic.handle}
                  /\ alert_boxes' = alert_rows(a)
                  /\ form' = IF submitted THEN Some(f) ELSE form
                  /\ flights' = IF submitted /\ accepted
                                THEN insert_flight(flights, f, now) ELSE flights
                  /\ gates' = IF kind = "autoassign"
                              THEN auto_assign_gates(gates) ELSE gates
                  /\ msgs' = alerts_banner(a)
                             \cup (IF submitted THEN try.msgs ELSE {})
                             \cup (IF kind = "autoassign" THEN {"info"} ELSE {})
                             \cup (IF escaped THEN {} ELSE {"footer"})
                  /\ rerun' = (escaped /\ try.raised = Some("RerunException"))
                  /\ UNCHANGED <<now, alerts>>

\* the values the form widgets can hold (lines 168-172)
FormInputs(t) ==
    {[flight_id |-> "AI101", origin |-> "DEL", eta |-> t + 1, status |-> "On Time"],
     [flight_id |-> "AI202", origin |-> "BOM", eta |-> t + 2, status |-> "Delayed"]}

Load == ~rerun /\ Run("load", Null, FALSE)

Refresh == ~rerun /\ Run("refresh", Null, FALSE)

Submit ==
    /\ ~rerun
    /\ \E f \in FormInputs(now), accepted \in BOOLEAN :
         /\ accepted => Len(flights) < MaxPageFlights
         /\ Run("submit", f, accepted)

AutoAssign == ~rerun /\ Run("autoassign", Null, FALSE)

\* the run st.rerun() asked for: no widget is pressed in it
Rerun == rerun /\ Run("rerun", Null, FALSE)

----------------------------------------------------------------------------
(* The database changes under the dashboard: the tables are owned elsewhere *)

Alert(id, sev, res, created) ==
    [id |-> id, severity |-> sev, message |-> "msg", resolved |-> res,
     created_at |-> created]

External == step' = "external" /\ UNCHANGED <<process, conn, used_conns, kpis_df,
                df, alerts_df, gate_df, delays, status_df, alert_boxes, form,
                msgs, rerun>>

ExtFlight ==
    /\ Len(flights) < MaxPageFlights
    /\ flights' = Append(flights,
            Flight("6E512", "HYD", "Salem", now + 2, "Delayed", Some(15), Some(1), now))
    /\ UNCHANGED <<now, gates, alerts>>
    /\ External

ExtGate ==
    /\ \E g \in DOMAIN gates :
          gates' = [gates EXCEPT ![g] =
                        IF @ = "Occupied" THEN "Available" ELSE "Occupied"]
    /\ UNCHANGED <<now, flights, alerts>>
    /\ External

ExtAlert ==
    /\ alerts = <<>>
    /\ alerts' = <<Alert(1, "High", FALSE, now)>>
    /\ UNCHANGED <<now, flights, gates>>
    /\ External

\* time passes: one feed window, up to the horizon of the model
Tick ==
    /\ now < Horizon
    /\ now' = now + FeedWindow
    /\ UNCHANGED <<flights, gates, alerts>>
    /\ External

----------------------------------------------------------------------------
(* Fixtures *)

GateTable(o, a, m) ==
    [g \in 1..(o + a + m) |->
        IF g <= o THEN "Occupied"
        ELSE IF g <= o + a THEN "Available" ELSE "Maintenance"]

SeqsUpTo(S, n) == UNION {[1..k -> S] : k \in 0..n}

ProcessStart == conn_cache = Null /\ opened = 0 /\ query_cache = EmptyCache

PageIdle ==
    /\ conn = Null /\ used_conns = {} /\ kpis_df = Null /\ df = Null
    /\ alerts_df = Null /\ gate_df = Null /\ delays = Null /\ status_df = Null
    /\ alert_boxes = <<>> /\ form = Null /\ msgs = {} /\ step = "start"
    /\ rerun = FALSE

----------------------------------------------------------------------------
(* The page under user interactions and database changes *)

Init ==
    /\ now = NowInit /\ flights = <<>> /\ gates = GateTable(0, 1, 0)
    /\ alerts = <<>> /\ ProcessStart /\ PageIdle

Next ==
    \/ Load \/ Refresh \/ Submit \/ AutoAssign \/ Rerun
    \/ ExtFlight \/ ExtGate \/ ExtAlert \/ Tick

Spec == Init /\ [][Next]_vars

----------------------------------------------------------------------------
(* The query layer on fixture databases: each specification draws a        *)
(* database and calls one method of AOCCDashboard on it.                   *)

Unused == alerts = <<>> /\ ProcessStart /\ PageIdle

\* flights of the feed fixture: either side of the 6-hour window, with no
\* gate, a gate of the table and a gate that is not in the table
FeedRows ==
    {Flight("AI101", "DEL", "Salem", NowInit + e, "On Time", Some(0), g, NowInit - a) :
        e \in {1, 2}, g \in {Null, Some(1), Some(99)},
        a \in {FeedWindow - 1, FeedWindow}}

InitFeed ==
    /\ now = NowInit
    /\ flights \in SeqsUpTo(FeedRows, MaxFlights)
    /\ gates \in {GateTable(0, 0, 0), GateTable(1, 1, 0)}
    /\ Unused

CallRefreshData ==
    /\ df' = Some(refresh_data(query_cache, flights, gates, now))
    /\ query_cache' = [query_cache EXCEPT !["feed"] = df']
    /\ step' = "refresh_data"
    /\ UNCHANGED <<db, conn_cache, opened, conn, used_conns, kpis_df, alerts_df,
                   gate_df, delays, status_df, alert_boxes, form, msgs, rerun>>

SpecFeed == InitFeed /\ [][CallRefreshData]_vars

\* flights of the KPI fixture: either side of the 24-hour window, with a
\* NULL, a zero and positive delays
KpiRows ==
    {Flight("AI101", "DEL", "Salem", NowInit + 1, "On Time", d, Null, NowInit - a) :
        d \in {Null, Some(0), Some(5), Some(10)},
        a \in {KpiWindow - 1, KpiWindow}}

InitKpis ==
    /\ now = NowInit
    /\ flights \in SeqsUpTo(KpiRows, MaxFlights)
    /\ gates \in {GateTable(0, 0, 0), GateTable(0, 1, 0), GateTable(2, 1, 1)}
    /\ Unused

CallGetKpis ==
    /\ kpis_df' = Some(get_kpis(query_cache, flights, gates, now))
    /\ query_cache' = [query_cache EXCEPT !["kpis"] = kpis_df']
    /\ step' = "get_kpis"
    /\ UNCHANGED <<db, conn_cache, opened, conn, used_conns, df, alerts_df,
                   gate_df, delays, status_df, alert_boxes, form, msgs, rerun>>

SpecKpis == InitKpis /\ [][CallGetKpis]_vars

InitGates ==
    /\ now = NowInit
    /\ flights = <<>>
    /\ gates \in {GateTable(o, a, m) : o \in 0..MaxGates, a \in 0..MaxGates,
                                       m \in 0..MaxGates}
    /\ Cardinality(DOMAIN gates) <= MaxGates
    /\ Unused

CallGetGateUtilization ==
    /\ gate_df' = Some(get_gate_utilization(query_cache, gates))
    /\ query_cache' = [query_cache EXCEPT !["gates"] = gate_df']
    /\ step' = "get_gate_utilization"
    /\ UNCHANGED <<db, conn_cache, opened, conn, used_conns, kpis_df, df,
                   alerts_df, delays, status_df, alert_boxes, form, msgs, rerun>>

SpecGates == InitGates /\ [][CallGetGateUtilization]_vars

\* alert tables of n rows: created_at rising or falling along the storage
\* order, or in two blocks of equal created_at split after row k
CreatedAt(pat, n, k, i) ==
    CASE pat = "asc" -> i
      [] pat = "desc" -> n + 1 - i
      [] pat = "blocks" -> IF i <= k THEN 1 ELSE 2
      [] pat = "blocks_desc" -> IF i <= k THEN 2 ELSE 1

Severity(i) == CASE i % 3 = 0 -> "Low" [] i % 3 = 1 -> "Medium" [] i % 3 = 2 -> "High"

AlertTable(n, pat, k, R) ==
    [i \in 1..n |-> Alert(i, Severity(i), i \in R, CreatedAt(pat, n, k, i))]

InitAlerts ==
    /\ now = NowInit
    /\ flights = <<>>
    /\ gates = GateTable(0, 0, 0)
    /\ \E n \in 0..MaxAlerts, pat \in {"asc", "desc", "blocks", "blocks_desc"} :
         \E k \in (IF pat \in {"asc", "desc"} THEN {0} ELSE 0..n),
            R \in (SUBSET ({1, 2, n} \cap 1..n)) \cup {1..n} :
              alerts = AlertTable(n, pat, k, R)
    /\ ProcessStart /\ PageIdle

\* lines 118-128: the alerts tab
AlertsTab ==
    /\ alerts_df' = Some(get_alerts(query_cache, alerts))
    /\ query_cache' = [query_cache EXCEPT !["alerts"] = alerts_df']
    /\ alert_boxes' = alert_rows(alerts_df'[1])
    /\ msgs' = alerts_banner(alerts_df'[1])
    /\ step' = "alerts_tab"
    /\ UNCHANGED <<db, conn_cache, opened, conn, used_conns, kpis_df, df,
                   gate_df, delays, status_df, form, rerun>>

SpecAlerts == InitAlerts /\ [][AlertsTab]_vars

----------------------------------------------------------------------------
(* Claims about the query layer *)

Min(a, b) == IF a < b THEN a ELSE b

FlightColumns(r) ==
    Flight(r.flight_id, r.origin, r.dest, r.eta, r.status, r.delay_min, r.gate,
           r.created_at)

RecentFlights == {i \in 1..Len(flights) : now - flights[i].created_at < FeedWindow}

\* C1: the live feed holds exactly the flights created less than 6 hours
\* ago, each once and no older one, in non-decreasing order of eta; a row
\* whose gate matches no gate row has empty gate columns, a row whose gate
\* matches carries that gate's number and status.
C1_LiveFeed ==
    df # Null =>
        LET rows == df[1]
        IN /\ Len(rows) = Cardinality(RecentFlights)
           /\ \A f \in Range(flights) \cup {FlightColumns(rows[j]) : j \in 1..Len(rows)} :
                Cardinality({j \in 1..Len(rows) : FlightColumns(rows[j]) = f})
                    = Cardinality({i \in RecentFlights : flights[i] = f})
           /\ \A j \in 1..(Len(rows) - 1) : rows[j].eta <= rows[j + 1].eta
           /\ \A j \in 1..Len(rows) :
                IF rows[j].gate # Null /\ rows[j].gate[1] \in DOMAIN gates
                THEN /\ rows[j].gate_number = rows[j].gate
                     /\ rows[j].gate_status = Some(gates[rows[j].gate[1]])
                ELSE rows[j].gate_number = Null /\ rows[j].gate_status = Null

\* two recent flights stored against their eta order, one of them at a gate
\* that is in no gate row, and one older flight
C1_Witness ==
    /\ df # Null /\ Len(df[1]) = 2 /\ Len(flights) = 3
    /\ gates # GateTable(0, 0, 0)
    /\ \E i, j \in RecentFlights : i < j /\ flights[i].eta > flights[j].eta
    /\ \E j \in 1..2 : df[1][j].gate = Some(99) /\ df[1][j].gate_number = Null
    /\ \E j \in 1..2 : df[1][j].gate_status = Some("Occupied")

KpiFlights == {i \in 1..Len(flights) : now - flights[i].created_at < KpiWindow}

KnownDelays == {i \in KpiFlights : flights[i].delay_min # Null}

DelayedFlights == {i \in KnownDelays : flights[i].delay_min[1] > 0}

RECURSIVE DelaySum(_)
DelaySum(I) ==
    IF I = {} THEN 0
    ELSE LET i == CHOOSE x \in I : TRUE
         IN flights[i].delay_min[1] + DelaySum(I \ {i})

OccupiedGates == {g \in DOMAIN gates : gates[g] = "Occupied"}

\* C2 as stated: over the flights of the trailing 24 hours, total_flights
\* is their number, delayed_flights the number with delay_min > 0,
\* avg_delay the sum of delay_min over all of them divided by their number,
\* and occupied_gates the number of Occupied gate rows.
C2_AsStated ==
    kpis_df # Null =>
        LET k == kpis_df[1]
            n == Cardinality(KpiFlights)
        IN /\ k.total_flights = n
           /\ k.delayed_flights = Some(Cardinality(DelayedFlights))
           /\ n > 0 => /\ k.avg_delay # Null
                       /\ k.avg_delay[1][1] * n = DelaySum(KnownDelays) * k.avg_delay[1][2]
           /\ k.occupied_gates = Cardinality(OccupiedGates)

\* C2 amended: total_flights is the number of flights of the trailing 24
\* hours; delayed_flights is the number of them with delay_min > 0, and
\* NULL when the window holds no flight at all; avg_delay is the
\* sum of delay_min over the window's flights whose delay_min is not NULL,
\* delayed or not, divided by the number of those flights, and NULL when
\* there is none; occupied_gates counts the Occupied rows of the whole
\* gates table.
C2_Kpis ==
    kpis_df # Null =>
        LET k == kpis_df[1]
            n == Cardinality(KpiFlights)
            m == Cardinality(KnownDelays)
        IN /\ k.total_flights = n
           /\ k.delayed_flights =
                IF n = 0 THEN Null ELSE Some(Cardinality(DelayedFlights))
           /\ IF m = 0 THEN k.avg_delay = Null
              ELSE /\ k.avg_delay # Null
                   /\ k.avg_delay[1][1] * m = DelaySum(KnownDelays) * k.avg_delay[1][2]
           /\ k.occupied_gates = Cardinality(OccupiedGates)

\* one delayed and one punctual flight in the window, one flight outside
\* it, two of four gates occupied
C2_Witness ==
    /\ kpis_df # Null /\ Len(flights) = 3
    /\ kpis_df[1].total_flights = 2
    /\ kpis_df[1].delayed_flights = Some(1)
    /\ kpis_df[1].avg_delay = Some(<<10, 2>>)
    /\ kpis_df[1].occupied_gates = 2 /\ Cardinality(DOMAIN gates) = 4

UnresolvedAlerts == {i \in 1..Len(alerts) : ~alerts[i].resolved}

\* C3: get_alerts returns min(U, 20) rows for U unresolved alerts, all
\* unresolved, no alert twice, in non-increasing order of created_at, and
\* no unresolved alert left out is newer than a returned one; with U = 0
\* the tab shows the "no active alerts" banner and no alert box, otherwise
\* one box per returned alert and no banner.
C3_Alerts ==
    alerts_df # Null =>
        LET rows == alerts_df[1]
            u == Cardinality(UnresolvedAlerts)
        IN /\ Len(rows) = Min(u, AlertLimit)
           /\ \A j \in 1..Len(rows) : rows[j] \in Range(alerts) /\ ~rows[j].resolved
           /\ \A i, j \in 1..Len(rows) : i < j => rows[i].id # rows[j].id
           /\ \A j \in 1..(Len(rows) - 1) : rows[j].created_at >= rows[j + 1].created_at
           /\ \A i \in UnresolvedAlerts :
                alerts[i] \notin Range(rows) =>
                    \A j \in 1..Len(rows) : rows[j].created_at >= alerts[i].created_at
           /\ IF u = 0
              THEN rows = <<>> /\ "no_alerts" \in msgs /\ alert_boxes = <<>>
              ELSE /\ "no_alerts" \notin msgs
                   /\ Len(alert_boxes) = Len(rows)
                   /\ \A j \in 1..Len(rows) :
                        alert_boxes[j] = <<rows[j].severity, rows[j].message>>

\* more than 20 unresolved alerts and a resolved one, 20 boxes drawn
C3_Witness ==
    /\ alerts_df # Null
    /\ Cardinality(UnresolvedAlerts) > AlertLimit
    /\ Cardinality(UnresolvedAlerts) < Len(alerts)
    /\ Len(alerts_df[1]) = AlertLimit /\ Len(alert_boxes) = AlertLimit
    /\ alerts_df[1][1].created_at > alerts_df[1][AlertLimit].created_at

\* C6: get_gate_utilization returns one row per status present in the gates
\* table, with the number of gates of that status: no status twice, no row
\* with count zero, and the counts sum to the number of gate rows.
C6_GateUtilization ==
    gate_df # Null =>
        LET rows == gate_df[1]
        IN /\ {r.status : r \in rows} = {gates[g] : g \in DOMAIN gates}
           /\ Cardinality(rows) = Cardinality({r.status : r \in rows})
           /\ \A r \in rows :
                /\ r.count > 0
                /\ r.count = Cardinality({g \in DOMAIN gates : gates[g] = r.status})
           /\ SumCounts(rows) = Cardinality(DOMAIN gates)

\* four Occupied and six Available gates give two rows
C6_Witness ==
    /\ Cardinality(DOMAIN gates) = 10
    /\ gate_df = Some({[status |-> "Occupied", count |-> 4],
                       [status |-> "Available", count |-> 6]})

----------------------------------------------------------------------------
(* Claims about the page *)

C5_Rejected ==
    [][(step' = "submit" /\ "success" \notin msgs') =>
            /\ flights' = flights
            /\ "error" \in msgs'
            /\ "footer" \in msgs'
            /\ ~rerun']_vars

\* a rejected submit on a table that holds a flight
C5_Witness ==
    /\ step = "submit" /\ "success" \notin msgs /\ "error" \in msgs
    /\ "footer" \in msgs /\ flights # <<>> /\ ~rerun

\* C7: the process creates at most one connection; every run holds that
\* one handle and every statement of a run is sent on it.
C7_OneConnection ==
    /\ opened <= 1
    /\ conn_cache # Null => opened = 1 /\ conn_cache = Some(1)
    /\ conn # Null => conn = conn_cache
    /\ \A h \in used_conns : conn = Some(h)

\* the run after a refresh click, in a process that has already run main()
\* with a submit
C7_Witness ==
    /\ step = "rerun" /\ opened = 1 /\ used_conns = {1} /\ conn = Some(1)
    /\ form # Null

FullRuns == {"load", "autoassign", "rerun"}

\* C8 as stated: at the end of every run that draws the page, every widget
\* shows the result of its statement on the database as it is in that run.
C8_FreshResults ==
    (step \in FullRuns \/ (step = "submit" /\ "success" \notin msgs)) =>
        /\ kpis_df = Some(get_kpis_sql(flights, gates, now))
        /\ df = Some(refresh_data_sql(flights, gates, now))
        /\ alerts_df = Some(get_alerts_sql(alerts))
        /\ gate_df = Some(get_gate_utilization_sql(gates))
        /\ delays = Some(delay_query(flights))
        /\ status_df = Some(status_query(flights, now))

\* C9: a run of the page leaves gates and alerts as they were and never
\* removes or changes a flight row; only a submit run can add one.
C9_OnlyInsert ==
    [][step' # "external" =>
            /\ gates' = gates
            /\ alerts' = alerts
            /\ Len(flights') >= Len(flights)
            /\ SubSeq(flights', 1, Len(flights)) = flights
            /\ flights' # flights => step' = "submit"]_vars

\* the auto-assign button pressed while a gate is Available and a flight
\* has no gate
C9_Witness ==
    /\ step = "autoassign" /\ "info" \in msgs
    /\ \E g \in DOMAIN gates : gates[g] = "Available"
    /\ \E i \in 1..Len(flights) : flights[i].gate = Null

\* C10 as stated: in a submit run the two messages exclude each other, and
\* a run that shows 'Flight added successfully!' ends in the pending rerun.
C10_SuccessOrError ==
    step = "submit" =>
        /\ ~({"success", "error"} \subseteq msgs)
        /\ "success" \in msgs => rerun

====
